---- MODULE Spec2Model ----
(***************************************************************************)
(* Model of regrid_high_res_v1_01.py: tiling of a global lat/lon grid,     *)
(* generation of the slurm batch scripts and of the dispatch script, the   *)
(* two polling loops that wait for the tile jobs, and the export of the    *)
(* regridded tiles.                                                        *)
(*                                                                         *)
(* Strings are sequences of one-character strings, so that str(),          *)
(* split('_'), float() and sorted() are computed character by character.   *)
(***************************************************************************)
EXTENDS Integers, Sequences, FiniteSets, TLC

\* ------------------------------------------------------------------ bounds

\* size_tiles ranges over MinSizeTiles..MaxSizeTiles (see SizeTilesSet)
MinSizeTiles == 30
MaxSizeTiles == 180
\* the clock of the hosts that write the outputs runs ClockSkew seconds
\* ahead of, or ClockLag seconds behind, the clock of the polling host
ClockSkew == 3
ClockLag == 125
\* the clock stops advancing in the waiting phases at MaxClock (s)
MaxClock == 5
\* seconds that pass between two looks at the blocked dispatch script
WaitStep == 5
\* commands and jobs end abnormally until MaxFaults outputs are lost or
\* left unfinished
MaxFaults == 2
\* the UTC offset of the polling host changes by TzShift seconds (an
\* hour, forwards or backwards) at the instant TzAt of its clock
TzShift == 3600
TzAt == 5
\* degrees by which an unclipped source reaches past the extent
Margin == 20
\* argument olap: the overlap of the slices, in degrees
Olap == 5

\* ------------------------------------------------------- program constants

LatStart == -90
LatStop == 90
LonStart == -180
LonStop == 180
BatchSize == 5
ParitySleep == 5
QuiesceSleep == 2
QuiesceThreshold == 120
SecondsPerDay == 86400

\* ------------------------------------------------------------------ strings

\* the characters with code points 45..57, in code point order
LowChars ==
  << "-", ".", "/", "0", "1", "2", "3", "4", "5", "6", "7", "8", "9" >>

\* the characters with code points 97..122, in code point order
LowerChars ==
  << "a", "b", "c", "d", "e", "f", "g", "h", "i", "j", "k", "l", "m",
     "n", "o", "p", "q", "r", "s", "t", "u", "v", "w", "x", "y", "z" >>

\* code point of a character of a file name ("_" is 95)
Ord(c) ==
  IF \E i \in 1..Len(LowChars) : LowChars[i] = c
  THEN 44 + (CHOOSE i \in 1..Len(LowChars) : LowChars[i] = c)
  ELSE IF c = "_" THEN 95
  ELSE 96 + (CHOOSE i \in 1..Len(LowerChars) : LowerChars[i] = c)

Digits == << "0", "1", "2", "3", "4", "5", "6", "7", "8", "9" >>

RECURSIVE StrNat(_)
StrNat(n) == IF n < 10 THEN << Digits[n + 1] >>
             ELSE StrNat(n \div 10) \o << Digits[(n % 10) + 1] >>

\* str(n) of a Python int
Str(n) == IF n < 0 THEN << "-" >> \o StrNat(-n) ELSE StrNat(n)

\* a < b in Python's string order (code point by code point, a proper
\* prefix before the longer string)
RECURSIVE StrLess(_, _)
StrLess(a, b) ==
  IF b = << >> THEN FALSE
  ELSE IF a = << >> THEN TRUE
  ELSE IF Ord(Head(a)) # Ord(Head(b)) THEN Ord(Head(a)) < Ord(Head(b))
  ELSE StrLess(Tail(a), Tail(b))

\* sorted(S) of a set of distinct strings
RECURSIVE Sorted(_)
Sorted(S) ==
  IF S = {} THEN << >>
  ELSE LET m == CHOOSE x \in S : \A y \in S \ {x} : StrLess(x, y)
       IN << m >> \o Sorted(S \ {m})

\* s.split(sep) for a one-character separator
RECURSIVE Split(_, _)
Split(s, sep) ==
  IF \A i \in 1..Len(s) : s[i] # sep THEN << s >>
  ELSE LET k == CHOOSE i \in 1..Len(s) :
                  s[i] = sep /\ \A j \in 1..(i - 1) : s[j] # sep
       IN << SubSeq(s, 1, k - 1) >> \o Split(SubSeq(s, k + 1, Len(s)), sep)

\* s.startswith(p)
StartsWith(s, p) == Len(s) >= Len(p) /\ SubSeq(s, 1, Len(p)) = p

IsDigit(c) == \E d \in 1..10 : Digits[d] = c

RECURSIVE ParseNat(_)
ParseNat(s) ==
  IF s = << >> THEN 0
  ELSE 10 * ParseNat(SubSeq(s, 1, Len(s) - 1))
       + ((CHOOSE d \in 1..10 : Digits[d] = s[Len(s)]) - 1)

\* the strings float() is given here parse when they are an optional sign
\* and decimal digits
IsFloatLiteral(s) ==
  LET body == IF s # << >> /\ Head(s) = "-" THEN Tail(s) ELSE s
  IN body # << >> /\ \A i \in 1..Len(body) : IsDigit(body[i])

\* float(s); anything that does not parse raises ValueError
Float(s) ==
  IF ~IsFloatLiteral(s) THEN "ValueError"
  ELSE IF Head(s) = "-" THEN 0 - ParseNat(Tail(s)) ELSE ParseNat(s)

\* s[-k] of a Python list
FromEnd(s, k) == s[Len(s) - k + 1]

\* --------------------------------------------------------------- constants

\* the string literals of the program
S_da_target == << "d", "a", "_", "t", "a", "r", "g", "e", "t", "_" >>
S_da_source == << "d", "a", "_", "s", "o", "u", "r", "c", "e", "_" >>
S_ds_out == << "d", "s", "_", "o", "u", "t", "_" >>
S_nc == << ".", "n", "c" >>
S_target_dir == << "t", "a", "r", "g", "e", "t", "/" >>
S_source_dir == << "s", "o", "u", "r", "c", "e", "/" >>
S_out_dir == << "o", "u", "t", "/" >>
S_regridding_sub == << "r", "e", "g", "r", "i", "d", "d", "i", "n", "g", "_", "s", "u", "b", "_" >>
S_regridding_sub_prefix == << "r", "e", "g", "r", "i", "d", "d", "i", "n", "g", "_", "s", "u", "b" >>
S_sh == << ".", "s", "h" >>
S_interm_out == << "i", "n", "t", "e", "r", "m", "/", "o", "u", "t", "/" >>
S_ds == << "d", "s" >>

\* dir_out of the run: a path that itself holds "_" and "."
DirOut == << "/", "w", "_", "1", ".", "d", "/" >>

\* ------------------------------------------------------------------- tiles

\* range() that takes stop as its last element
RECURSIVE RangeInclusive(_, _, _)
RangeInclusive(start, stop, step) ==
  IF start > stop THEN << >>
  ELSE << start >> \o RangeInclusive(start + step, stop, step)

\* [*range(start, stop, step)] for step > 0
RECURSIVE Range(_, _, _)
Range(start, stop, step) ==
  IF start >= stop THEN << >>
  ELSE << start >> \o Range(start + step, stop, step)

\* list(itertools.product(a, b)): the first list varies slowest
RECURSIVE Product(_, _)
Product(a, b) ==
  IF a = << >> THEN << >>
  ELSE [j \in 1..Len(b) |-> << Head(a), b[j] >>] \o Product(Tail(a), b)

\* [latmin, latmax, lonmin, lonmax] of the tile with low corner c
\* a tile twice as wide in longitude as in latitude
TileOfCornerWide(c, size_tiles) ==
  << c[1], c[1] + size_tiles, c[2], c[2] + 2 * size_tiles >>

TileOfCorner(c, size_tiles) ==
  << c[1], c[1] + size_tiles, c[2], c[2] + size_tiles >>

make_cases_list_global(size_tiles) ==
  LET list_cases_global ==
        Product(Range(LatStart, LatStop, size_tiles),
                Range(LonStart, LonStop, size_tiles))
  IN [k \in 1..Len(list_cases_global) |->
        TileOfCorner(list_cases_global[k], size_tiles)]

\* the selection test with strict comparisons: a tile that meets the extent
\* only with its edge is left out
TileTouchedStrict(i, lat_min, lat_max, lon_min, lon_max) ==
  /\ i[2] > lat_min
  /\ i[1] < lat_max
  /\ i[4] > lon_min
  /\ i[3] < lon_max

\* the test of the selection loop: tile i is touched by the source extent
TileTouched(i, lat_min, lat_max, lon_min, lon_max) ==
  /\ i[2] >= lat_min
  /\ i[1] <= lat_max
  /\ i[4] >= lon_min
  /\ i[3] <= lon_max

\* ext is the extent of da_source: [lat_min, lat_max, lon_min, lon_max]
make_cases_list_source(ext, size_tiles) ==
  SelectSeq(make_cases_list_global(size_tiles),
            LAMBDA i : TileTouched(i, ext.lat_min, ext.lat_max,
                                   ext.lon_min, ext.lon_max))

\* -------------------------------------------------------------- file names

\* the tile identifier
case_str(case) ==
  Str(case[1]) \o << "_" >> \o Str(case[2]) \o << "_" >> \o Str(case[3])
  \o << "_" >> \o Str(case[4])

\* the names _make_tile writes below interm/target/ and interm/source/
TargetName(case) == S_da_target \o case_str(case) \o S_nc
SourceName(case) == S_da_source \o case_str(case) \o S_nc

\* the cdo line with the longitudes written before the latitudes
prep_cmd_cdo_lonfirst(case) ==
  LET swapped == << case[3], case[4], case[1], case[2] >>
  IN [ f_target |-> S_target_dir \o S_da_target \o case_str(swapped) \o S_nc,
       f_source |-> S_source_dir \o S_da_source \o case_str(swapped) \o S_nc,
       f_out    |-> S_out_dir \o S_ds_out \o case_str(swapped) \o S_nc ]

\* the cdo line of one tile: its three file arguments, relative to interm/
prep_cmd_cdo(case) ==
  [ f_target |-> S_target_dir \o S_da_target \o case_str(case) \o S_nc,
    f_source |-> S_source_dir \o S_da_source \o case_str(case) \o S_nc,
    f_out    |-> S_out_dir \o S_ds_out \o case_str(case) \o S_nc ]

\* the parsing with latmin read from the field of latmax
TileBoundsOfFileShifted(file) ==
  LET parts == Split(file, "_")
  IN << Float(FromEnd(parts, 3)),
        Float(FromEnd(parts, 3)),
        Float(FromEnd(parts, 2)),
        Float(Split(FromEnd(parts, 1), ".")[1]) >>

\* the four coordinates _prep_tiles_regridded reads from a file path
TileBoundsOfFile(file) ==
  LET parts == Split(file, "_")
  IN << Float(FromEnd(parts, 4)),
        Float(FromEnd(parts, 3)),
        Float(FromEnd(parts, 2)),
        Float(Split(FromEnd(parts, 1), ".")[1]) >>

\* float() raises on none of the four fields
BoundsParse(file) ==
  LET parts == Split(file, "_")
  IN /\ Len(parts) >= 4
     /\ IsFloatLiteral(FromEnd(parts, 4))
     /\ IsFloatLiteral(FromEnd(parts, 3))
     /\ IsFloatLiteral(FromEnd(parts, 2))
     /\ IsFloatLiteral(Split(FromEnd(parts, 1), ".")[1])

\* ------------------------------------------------------------ bash scripts

\* [list_cases[i:i+5] for i in range(0, len(list_cases), 5)]
groups_cases_short(list_cases) ==
  LET starts == Range(0, Len(list_cases), BatchSize)
      Stop(s) == IF s + BatchSize - 1 < Len(list_cases)
                 THEN s + BatchSize - 1 ELSE Len(list_cases)
  IN [g \in 1..Len(starts) |-> SubSeq(list_cases, starts[g] + 1, Stop(starts[g]))]

\* list_cases[i:i + 5] for i in range(0, len(list_cases), 5)
groups_cases(list_cases) ==
  LET starts == Range(0, Len(list_cases), BatchSize)
      Stop(s) == IF s + BatchSize < Len(list_cases)
                 THEN s + BatchSize ELSE Len(list_cases)
  IN [g \in 1..Len(starts) |-> SubSeq(list_cases, starts[g] + 1, Stop(starts[g]))]

\* the file name of the sub script of group i (i counts from 0)
ScriptSubName(i) == S_regridding_sub \o Str(i) \o S_sh

\* the cdo lines of one sub script
SubScriptLines(group) == [ii \in 1..Len(group) |-> prep_cmd_cdo(group[ii])]

\* interm/bash/ after the loop over the groups: file name -> cdo lines
SubScripts(list_cases) ==
  LET groups == groups_cases(list_cases)
  IN [n \in {ScriptSubName(g - 1) : g \in 1..Len(groups)} |->
        SubScriptLines(groups[CHOOSE g \in 1..Len(groups) :
                                ScriptSubName(g - 1) = n])]

\* sorted list of the sub scripts found in interm/bash/
ListSubFiles(dir_bash) ==
  Sorted({i \in DOMAIN dir_bash : StartsWith(i, S_regridding_sub_prefix)})

\* the sbatch lines of regridding.sh: all but the last file of the list
\* with a trailing "&", the last one without
DispatchLines(list_sub_files) ==
  [k \in 1..Len(list_sub_files) |->
     [ file |-> list_sub_files[k],
       background |-> k < Len(list_sub_files) ]]

\* ------------------------------------------------------------------- state

VARIABLES
  size_tiles,   \* argument size_tiles
  ext,          \* extent of da_source: lat_min, lat_max, lon_min, lon_max
  type_export,  \* argument type_export
  del_interm,   \* argument del_interm
  skew,         \* clock of the writing hosts minus clock of the polling host
  tz_shift,     \* change of the polling host's UTC offset at TzAt (0: none)
  pc,           \* the statement of regrid_high_res that runs next
  dir_target,   \* file names in interm/target/
  dir_source,   \* file names in interm/source/
  dir_bash,     \* sub scripts in interm/bash/: file name -> cdo lines
  script,       \* the sbatch lines of interm/bash/regridding.sh
  dir_out,      \* interm/out/: file name -> modification time
  sh,           \* next line of regridding.sh the shell runs (0: not started)
  jobs,         \* submitted sub scripts: file name -> [state, pos]
  cdo,          \* the cdo commands that run now: [file, line]
  partial,      \* files of interm/out/ that are not written to the end
  failed,       \* outputs that will never exist: their cdo line ended
                \* without a file, or its job was killed before the line ran
  now,          \* time.time() of the polling host
  obs,          \* what the two polling loops last saw
  exported,     \* the files written to dir_out by the export
  agg,          \* the datasets of the aggregation (empty before it runs)
  err           \* the exception that ended the run, or "none"

vars == << size_tiles, ext, type_export, del_interm, skew, tz_shift, pc,
           dir_target,
           dir_source, dir_bash, script, dir_out, sh, jobs, cdo, partial,
           failed, now, obs, exported, agg, err >>

inputs == << size_tiles, ext, type_export, del_interm, skew, tz_shift >>

\* ------------------------------------------------------------------ inputs

\* the sizes that divide 360 (some of them do not divide 180) and some that
\* divide neither
SizeTilesSet ==
  {s \in MinSizeTiles..MaxSizeTiles : 360 % s = 0 \/ s % 50 = 0}

LatValues == {-90, -45, 0, 10, 50, 90}
LonValues == {-180, -60, -30, 0, 40, 180, 200}

Extents ==
  {e \in [lat_min : LatValues, lat_max : LatValues,
          lon_min : LonValues, lon_max : LonValues] :
     e.lat_min <= e.lat_max /\ e.lon_min <= e.lon_max}

ExportTypes == {"zarr", "tif", "netcdf", "csv"}

\* the inputs of the runs whose jobs are followed step by step
RunSizes == {90, 180}
RunExtents ==
  { [lat_min |-> 10, lat_max |-> 50, lon_min |-> 10, lon_max |-> 50],
    [lat_min |-> 10, lat_max |-> 50, lon_min |-> -30, lon_max |-> 40],
    [lat_min |-> -45, lat_max |-> 45, lon_min |-> -90, lon_max |-> 10] }

Skews == {0 - ClockLag, 0, ClockSkew}

\* the clocks of a run: a skew between the hosts, or a change of the UTC
\* offset of the polling host during the run
Clocks ==
  {<< s, 0 >> : s \in Skews} \cup {<< 0, TzShift >>, << 0, 0 - TzShift >>}

\* the runs that are followed: every export type and both cleanup choices
\* with clocks that agree and an empty interm/out/; the other clocks, and
\* an interm/out/ with a file of an earlier run, with one export type
RunCases ==
  {r \in [type_export : ExportTypes, del_interm : BOOLEAN, clock : Clocks,
          stale : BOOLEAN] :
     \/ r.clock = << 0, 0 >> /\ ~r.stale
     \/ r.type_export = "zarr" /\ r.del_interm
                               /\ (r.clock = << 0, 0 >> \/ ~r.stale)}

NoFile == [n \in {} |-> 0]

\* the last component of a path
Basename(path) == FromEnd(Split(path, "/"), 1)

\* a cell value: missing, or a number counted in tenths
NaN == [nan |-> TRUE, v |-> 0]
Val(v) == [nan |-> FALSE, v |-> v]

\* the coordinate vectors of a data array
Grid(lats, lons) == [lat |-> lats, lon |-> lons]
Points(g) == g.lat \X g.lon

NoGrid == Grid({}, {})
NoData == [p \in {} |-> NaN]

\* nothing has been aggregated yet
NoAgg ==
  [ da_target |-> NoGrid, da_source |-> NoGrid, fill_value |-> 0,
    dtype |-> "none", ds_combined |-> NoData, ds_final |-> NoData ]

\* interm/out/ before the run: absent, or left by an earlier run that
\* regridded another extent
StaleTile == << 0, 90, 90, 180 >>
StaleName == Basename(prep_cmd_cdo(StaleTile).f_out)
StaleOut == [n \in {StaleName} |-> 0 - ClockLag]

InitRest ==
  /\ pc = "mkdirs"
  /\ dir_target = {}
  /\ dir_source = {}
  /\ dir_bash = NoFile
  /\ script = << >>
  /\ sh = 0
  /\ jobs = NoFile
  /\ cdo = {}
  /\ partial = {}
  /\ failed = {}
  /\ now = 0
  /\ obs = [ran |-> FALSE, late |-> FALSE, parity |-> FALSE,
            checked |-> FALSE, gap |-> 0]
  /\ exported = {}
  /\ agg = NoAgg
  /\ err = "none"

\* a run with more than one sub script is followed with one export type,
\* with cleanup, and with clocks that agree or writers that lag
RunCasesOf(s, e) ==
  IF Len(make_cases_list_source(e, s)) > BatchSize
  THEN {r \in RunCases : /\ r.type_export = "zarr"
                         /\ r.del_interm
                         /\ r.clock \in {<< 0, 0 >>, << 0 - ClockLag, 0 >>}}
  ELSE RunCases

Init ==
  /\ size_tiles \in RunSizes
  /\ ext \in RunExtents
  /\ \E r \in RunCasesOf(size_tiles, ext) :
       /\ type_export = r.type_export
       /\ del_interm = r.del_interm
       /\ skew = r.clock[1]
       /\ tz_shift = r.clock[2]
       /\ dir_out = IF r.stale THEN StaleOut ELSE NoFile
  /\ InitRest

InitBuild ==
  /\ size_tiles \in SizeTilesSet
  /\ ext \in Extents
  /\ type_export = "zarr"
  /\ del_interm = TRUE
  /\ skew = 0
  /\ tz_shift = 0
  /\ dir_out = NoFile
  /\ InitRest

\* ------------------------------------------------- building the work items

\* a directory tree that is found again after the call
AfterRmtreeKeeps(dir) == dir

\* shutil.rmtree of interm/ followed by os.makedirs: the directory is empty
AfterRmtree(dir) == NoFile

MakeIntermediateDirectories ==
  /\ pc = "mkdirs"
  /\ dir_target' = {}
  /\ dir_source' = {}
  /\ dir_bash' = NoFile
  /\ script' = << >>
  /\ dir_out' = AfterRmtree(dir_out)
  /\ partial' = {}
  /\ pc' = "tiles"
  /\ UNCHANGED << inputs, sh, jobs, cdo, failed, now, obs, exported, agg, err >>

MakeTiles ==
  /\ pc = "tiles"
  /\ LET list_cases == make_cases_list_source(ext, size_tiles)
     IN /\ dir_target' = {TargetName(list_cases[k]) : k \in 1..Len(list_cases)}
        /\ dir_source' = {SourceName(list_cases[k]) : k \in 1..Len(list_cases)}
  /\ pc' = "scripts"
  /\ UNCHANGED << inputs, dir_bash, script, dir_out, sh, jobs, cdo, partial, failed,
                  now, obs, exported, agg, err >>

\* list_sub_files[-1] of an empty list raises IndexError
MakeBashScripts ==
  /\ pc = "scripts"
  /\ LET list_cases == make_cases_list_source(ext, size_tiles)
         subs == SubScripts(list_cases)
         list_sub_files == ListSubFiles(subs)
     IN /\ dir_bash' = subs
        /\ IF list_sub_files = << >>
           THEN /\ err' = "IndexError"
                /\ pc' = "error"
                /\ script' = << >>
           ELSE /\ err' = err
                /\ pc' = "run"
                /\ script' = DispatchLines(list_sub_files)
  /\ UNCHANGED << inputs, dir_target, dir_source, dir_out, sh, jobs, cdo,
                  partial, failed, now, obs, exported, agg >>

NextBuild == MakeIntermediateDirectories \/ MakeTiles \/ MakeBashScripts

SpecBuild == InitBuild /\ [][NextBuild]_vars

\* ------------------------------------------------------- running the jobs

\* max of a non-empty set of numbers
MaxOf(S) == CHOOSE m \in S : \A x \in S : x <= m

\* the shell waits at a line without "&" until its sbatch -W returns
ShellBlocked ==
  /\ sh > 1
  /\ ~script[sh - 1].background
  /\ jobs[script[sh - 1].file].state # "done"

\* subprocess.run starts bash on regridding.sh
StartShell ==
  /\ pc = "run"
  /\ sh = 0
  /\ sh' = 1
  /\ UNCHANGED << inputs, pc, dir_target, dir_source, dir_bash, script,
                  dir_out, jobs, cdo, partial, failed, now, obs, exported, agg, err >>

\* the shell runs its next sbatch line: the sub script becomes a slurm job
Submit ==
  /\ pc = "run"
  /\ sh >= 1
  /\ sh <= Len(script)
  /\ ~ShellBlocked
  /\ jobs' = [f \in DOMAIN jobs \cup {script[sh].file} |->
                IF f = script[sh].file
                THEN [state |-> "running", pos |-> 1]
                ELSE jobs[f]]
  /\ sh' = sh + 1
  /\ UNCHANGED << inputs, pc, dir_target, dir_source, dir_bash, script,
                  dir_out, cdo, partial, failed, now, obs, exported, agg, err >>

\* a sub script whose lines all ran as if they ended with "&"
LineMayStartAlways(f) == TRUE

\* the cdo lines of a sub script have no trailing "&": bash starts a line
\* only when no command of the script runs
LineMayStart(f) == \A c \in cdo : c.file # f

\* the names of the output files of the lines from..to of a sub script
OutputsOfLines(f, from, to) ==
  {Basename(dir_bash[f][k].f_out) : k \in from..to}

\* bash starts the next cdo line of the sub script
CdoStarts(f) ==
  /\ f \in DOMAIN jobs
  /\ f \in DOMAIN dir_bash
  /\ jobs[f].state = "running"
  /\ jobs[f].pos <= Len(dir_bash[f])
  /\ LineMayStart(f)
  /\ cdo' = cdo \cup {[file |-> f, line |-> jobs[f].pos,
                       out |-> Basename(dir_bash[f][jobs[f].pos].f_out)]}
  /\ jobs' = [jobs EXCEPT ![f].pos = jobs[f].pos + 1]
  /\ UNCHANGED << inputs, pc, dir_target, dir_source, dir_bash, script, sh,
                  dir_out, partial, failed, now, obs, exported, agg, err >>

\* the job record after its command c has ended: the script is over when
\* its last line was started and none of its commands runs any more
JobAfterLine(c) ==
  [jobs EXCEPT ![c.file].state =
     IF /\ \A d \in cdo \ {c} : d.file # c.file
        /\ \/ c.file \notin DOMAIN dir_bash
           \/ jobs[c.file].pos > Len(dir_bash[c.file])
     THEN "done" ELSE "running"]

\* the running cdo command c creates its output file
FileAppears(c) ==
  /\ c \in cdo
  /\ c.file \in DOMAIN dir_bash
  /\ c.out \notin DOMAIN dir_out
  /\ LET cmd == dir_bash[c.file][c.line]
     IN /\ Basename(cmd.f_target) \in dir_target
        /\ Basename(cmd.f_source) \in dir_source
  /\ dir_out' = [n \in DOMAIN dir_out \cup {c.out} |->
                   IF n = c.out THEN now + skew ELSE dir_out[n]]
  /\ partial' = partial \cup {c.out}
  /\ UNCHANGED << inputs, pc, dir_target, dir_source, dir_bash, script, sh,
                  jobs, cdo, failed, now, obs, exported, agg, err >>

\* the running cdo command c writes on to its output file; the writes are
\* followed up to MaxClock
FileWritten(c) ==
  /\ c \in cdo
  /\ c.out \in partial
  /\ c.out \in DOMAIN dir_out
  /\ now <= MaxClock
  /\ dir_out[c.out] # now + skew
  /\ dir_out' = [dir_out EXCEPT ![c.out] = now + skew]
  /\ UNCHANGED << inputs, pc, dir_target, dir_source, dir_bash, script, sh,
                  jobs, cdo, partial, failed, now, obs, exported, agg, err >>

\* the running cdo command c has written its file to the end and exits
\* with status 0, or it exits after interm/ was removed under it (the
\* file it wrote is gone with the directory); bash goes on with the next
\* line
CdoEnds(c) ==
  /\ c \in cdo
  /\ c.out \in partial \/ c.file \notin DOMAIN dir_bash
  /\ partial' = partial \ {c.out}
  /\ jobs' = JobAfterLine(c)
  /\ cdo' = cdo \ {c}
  /\ UNCHANGED << inputs, pc, dir_target, dir_source, dir_bash, script, sh,
                  dir_out, failed, now, obs, exported, agg, err >>

\* the outputs that an abnormal end has lost or left unfinished
Faults ==
  failed \cup {n \in partial : \A c \in cdo : c.out # n}

\* the running cdo command c exits with an error or is killed by a signal
\* while interm/ exists: before it has created its output file (the file
\* will never exist), or after (the file stays as it is, unfinished);
\* bash goes on with the next line
CdoFails(c) ==
  /\ c \in cdo
  /\ c.file \in DOMAIN dir_bash
  /\ Cardinality(Faults) < MaxFaults
  /\ failed' = IF c.out \in DOMAIN dir_out THEN failed
               ELSE failed \cup {c.out}
  /\ jobs' = JobAfterLine(c)
  /\ cdo' = cdo \ {c}
  /\ UNCHANGED << inputs, pc, dir_target, dir_source, dir_bash, script, sh,
                  dir_out, partial, now, obs, exported, agg, err >>

\* slurm ends the job at its time limit (#SBATCH --time): the running
\* command is killed, a file it had begun stays unfinished, and the lines
\* after it never run; after interm/ was removed there is no file left
\* that the job could still owe
JobKilled(f) ==
  /\ f \in DOMAIN jobs
  /\ jobs[f].state = "running"
  /\ f \in DOMAIN dir_bash => Cardinality(Faults) < MaxFaults
  /\ cdo' = {c \in cdo : c.file # f}
  /\ failed' = IF f \in DOMAIN dir_bash
               THEN failed
                      \cup {c.out : c \in {d \in cdo : d.file = f
                                             /\ d.out \notin DOMAIN dir_out}}
                      \cup OutputsOfLines(f, jobs[f].pos, Len(dir_bash[f]))
               ELSE failed
  /\ jobs' = [jobs EXCEPT ![f].state = "done"]
  /\ UNCHANGED << inputs, pc, dir_target, dir_source, dir_bash, script, sh,
                  dir_out, partial, now, obs, exported, agg, err >>

\* time passes while subprocess.run waits for the shell
Wait ==
  /\ pc = "run"
  /\ now + WaitStep <= MaxClock
  /\ now' = now + WaitStep
  /\ UNCHANGED << inputs, pc, dir_target, dir_source, dir_bash, script,
                  dir_out, sh, jobs, cdo, partial, failed, obs, exported, agg, err >>

\* the shell has run its last line: subprocess.run returns
ShellExits ==
  /\ pc = "run"
  /\ sh > Len(script)
  /\ ~ShellBlocked
  /\ pc' = "parity"
  /\ obs' = [obs EXCEPT !.ran = TRUE,
                        !.late = \E f \in DOMAIN jobs : jobs[f].state # "done"]
  /\ UNCHANGED << inputs, dir_target, dir_source, dir_bash, script, dir_out,
                  sh, jobs, cdo, partial, failed, now, exported, agg, err >>

\* the first loop waiting for one file more than there are target slices
ParityPendingOffByOne(n_target, n_out) == n_target + 1 # n_out

\* the first loop waiting only while interm/out/ holds more files
ParityPendingLess(n_target, n_out) == n_target < n_out

\* the condition of the first while loop
ParityPending(n_target, n_out) == n_target # n_out

\* time.sleep(t); the clock of the model stops at MaxClock
AfterSleep(t) == IF now + t <= MaxClock THEN now + t ELSE now

ParityLoop ==
  /\ pc = "parity"
  /\ ParityPending(Cardinality(dir_target), Cardinality(DOMAIN dir_out))
  /\ now' = AfterSleep(ParitySleep)
  /\ UNCHANGED << inputs, pc, dir_target, dir_source, dir_bash, script,
                  dir_out, sh, jobs, cdo, partial, failed, obs, exported, agg, err >>

ParityExit ==
  /\ pc = "parity"
  /\ ~ParityPending(Cardinality(dir_target), Cardinality(DOMAIN dir_out))
  /\ pc' = "quiesce"
  /\ obs' = [obs EXCEPT !.parity = TRUE]
  /\ UNCHANGED << inputs, dir_target, dir_source, dir_bash, script, dir_out,
                  sh, jobs, cdo, partial, failed, now, exported, agg, err >>

\* now minus the newest modification time of the files of the directory
\* datetime.fromtimestamp(x): the naive local time of the polling host
LocalTime(x) == x + (IF x >= TzAt THEN tz_shift ELSE 0)

get_lastmod_diff(dir_files, t) ==
  LocalTime(t) - LocalTime(MaxOf({dir_files[i] : i \in DOMAIN dir_files}))

\* time.time() minus the newest modification time
Gap(dir_files, t) == t - MaxOf({dir_files[i] : i \in DOMAIN dir_files})

\* timedelta.seconds: the seconds field of the normalised timedelta
\* (days, seconds), 0 <= seconds < 86400
timedelta_seconds(diff) == diff % SecondsPerDay

\* the condition of the second while loop
QuiescePending(diff) == timedelta_seconds(diff) < QuiesceThreshold

\* np.max of an empty list raises ValueError
QuiesceLoop ==
  /\ pc = "quiesce"
  /\ IF DOMAIN dir_out = {}
     THEN /\ err' = "ValueError"
          /\ pc' = "error"
          /\ UNCHANGED << now, obs >>
     ELSE /\ QuiescePending(get_lastmod_diff(dir_out, now))
          /\ obs' = [obs EXCEPT !.checked = TRUE,
                                !.gap = Gap(dir_out, now)]
          /\ now' = now + QuiesceSleep
          /\ UNCHANGED << pc, err >>
  /\ UNCHANGED << inputs, dir_target, dir_source, dir_bash, script, dir_out,
                  sh, jobs, cdo, partial, failed, exported, agg >>

QuiesceExit ==
  /\ pc = "quiesce"
  /\ DOMAIN dir_out # {}
  /\ ~QuiescePending(get_lastmod_diff(dir_out, now))
  /\ obs' = [obs EXCEPT !.checked = TRUE,
                        !.gap = Gap(dir_out, now)]
  /\ pc' = "export"
  /\ UNCHANGED << inputs, dir_target, dir_source, dir_bash, script, dir_out,
                  sh, jobs, cdo, partial, failed, now, exported, agg, err >>

\* ------------------------------------------------------------------ export

\* the path _combine_tiles_regridded opens for a file of interm/out/
OutPath(i) == DirOut \o S_interm_out \o i

\* the tiles the regridded files are cropped to, in sorted file order
TilesRegridded(dir) ==
  LET list_f_out == Sorted({i \in DOMAIN dir : SubSeq(i, 1, 2) = S_ds})
  IN [k \in 1..Len(list_f_out) |-> TileBoundsOfFile(OutPath(list_f_out[k]))]

\* ------------------------------------------------- the aggregated dataset

MinOf(S) == CHOOSE m \in S : \A x \in S : m <= x

\* min and max of the coordinates of a data array
ExtentOf(g) ==
  [ lat_min |-> MinOf(g.lat), lat_max |-> MaxOf(g.lat),
    lon_min |-> MinOf(g.lon), lon_max |-> MaxOf(g.lon) ]

\* da_source.sel(lat=slice(max(target.lat), min(target.lat)),
\*               lon=slice(min(target.lon), max(target.lon)))
ClipToTarget(da_source, da_target) ==
  Grid({la \in da_source.lat :
          MinOf(da_target.lat) <= la /\ la <= MaxOf(da_target.lat)},
       {lo \in da_source.lon :
          MinOf(da_target.lon) <= lo /\ lo <= MaxOf(da_target.lon)})

\* target grids: one that ends where the clipped source ends, one that
\* spans the globe
TargetGrids(e) ==
  { Grid({e.lat_min, e.lat_max}, {e.lon_min, e.lon_max}),
    Grid({LatStart, e.lat_min, e.lat_max, LatStop},
         {LonStart, e.lon_min, e.lon_max, LonStop}) }

\* source grids before the clip: one that ends at the extent, one that
\* reaches Margin degrees further on every side
SourceGrids(e) ==
  { Grid({e.lat_min, e.lat_max}, {e.lon_min, e.lon_max}),
    Grid({e.lat_min - Margin, e.lat_min, e.lat_max, e.lat_max + Margin},
         {e.lon_min - Margin, e.lon_min, e.lon_max, e.lon_max + Margin}) }

\* fill values (in tenths): -9999 and 2.5
FillValues == {0 - 99990, 25}

\* da_source.dtype
DTypes == {"float64", "int16"}

\* the regridded field grows by Scale tenths per degree: whole numbers
\* with 10, halves with 5
Scales == {5, 10}

\* the value cdo writes for a target cell: missing where the source slice
\* does not reach
CdoValue(p, e, scale) ==
  IF /\ e.lat_min <= p[1] /\ p[1] <= e.lat_max
     /\ e.lon_min <= p[2] /\ p[2] <= e.lon_max
  THEN Val(scale * (p[1] + p[2]))
  ELSE NaN

\* da_target.sel(lat=slice(latmax+olap, latmin-olap),
\*               lon=slice(lonmin-olap, lonmax+olap))
TargetSlice(case, da_target, olap) ==
  Grid({la \in da_target.lat : case[1] - olap <= la /\ la <= case[2] + olap},
       {lo \in da_target.lon : case[3] - olap <= lo /\ lo <= case[4] + olap})

\* the file cdo writes for a tile: the grid of the target slice
CdoFile(case, da_target, e, scale, olap) ==
  [p \in Points(TargetSlice(case, da_target, olap)) |-> CdoValue(p, e, scale)]

\* the tiles whose cdo lines wrote the regridded files, in sorted file order
CasesRegridded(dir, list_cases) ==
  LET list_f_out == Sorted({i \in DOMAIN dir : SubSeq(i, 1, 2) = S_ds})
  IN [k \in 1..Len(list_f_out) |->
        list_cases[CHOOSE j \in 1..Len(list_cases) :
                     Basename(prep_cmd_cdo(list_cases[j]).f_out)
                       = list_f_out[k]]]

\* cut off the overlap: .sel(lat=slice(latmax, latmin),
\* lon=slice(lonmin, lonmax)) with the bounds read from the file name
Crop(content, b) ==
  [p \in {q \in DOMAIN content : /\ b[1] <= q[1] /\ q[1] <= b[2]
                                 /\ b[3] <= q[2] /\ q[2] <= b[4]}
     |-> content[p]]

\* the opened and cropped tiles, in sorted file order: bounds[k] are the
\* bounds read from the name of file k, cases[k] is the tile cdo wrote it for
ListTilesRegridded(bounds, cases, da_target, e, scale, olap) ==
  [k \in 1..Len(bounds) |->
     Crop(CdoFile(cases[k], da_target, e, scale, olap), bounds[k])]

\* xr.combine_by_coords(...).drop_duplicates(['lat', 'lon']): the union of
\* the tiles; of a cell that two tiles hold the first one is kept
RECURSIVE CombineByCoords(_)
CombineByCoords(list_tiles) ==
  IF list_tiles = << >> THEN NoData
  ELSE Head(list_tiles) @@ CombineByCoords(Tail(list_tiles))

\* a dataset that keeps its own coordinates
ReindexLikeNone(ds, grid) == ds

\* .reindex_like(da_target): the coordinates of the target grid, missing
\* where the dataset has no cell
ReindexLike(ds, grid) ==
  [p \in DOMAIN ds \cap Points(grid) |-> ds[p]]
  @@ [p \in Points(grid) |-> NaN]

\* .astype(dtype): an integer type drops the fraction (towards zero)
AsType(x, dtype) ==
  IF dtype = "int16"
  THEN Val(IF x.v >= 0 THEN (x.v \div 10) * 10
           ELSE 0 - (((0 - x.v) \div 10) * 10))
  ELSE x

\* xr.where(np.isnan(ds), fill_value, ds).astype(da_source.dtype)
Finalize(ds, fill_value, dtype) ==
  [p \in DOMAIN ds |->
     AsType(IF ds[p].nan THEN Val(fill_value) ELSE ds[p], dtype)]

\* the positions, in sorted file order, of the regridded files that are
\* not written to the end
Unfinished(dir, part) ==
  LET list_f_out == Sorted({i \in DOMAIN dir : SubSeq(i, 1, 2) = S_ds})
  IN {k \in 1..Len(list_f_out) : list_f_out[k] \in part}

\* xr.open_mfdataset of a file whose data is not written yet: the cells are
\* missing
OpenUnfinished(content) == [p \in DOMAIN content |-> NaN]

\* the files the three "if type_export ==" statements write
ExportedFiles(t) ==
  (IF t = "zarr" THEN {"ds_regridded.zarr"} ELSE {})
  \cup (IF t = "tif" THEN {"ds_regridded.tif"} ELSE {})
  \cup (IF t = "netcdf" THEN {"ds_regridded.nc"} ELSE {})

ExportRegridded ==
  /\ pc = "export"
  /\ IF \E i \in DOMAIN dir_out :
          SubSeq(i, 1, 2) = S_ds /\ ~BoundsParse(OutPath(i))
     THEN /\ err' = "ValueError"
          /\ pc' = "error"
          /\ UNCHANGED << exported, agg >>
     ELSE \E bounds \in {TilesRegridded(dir_out)},
             cases \in {CasesRegridded(dir_out,
                                      make_cases_list_source(ext, size_tiles))},
             da_target \in TargetGrids(ext), da_source \in SourceGrids(ext),
             fill_value \in FillValues, dtype \in DTypes, scale \in Scales,
             unfinished \in {Unfinished(dir_out, partial)} :
            /\ ExtentOf(ClipToTarget(da_source, da_target)) = ext
            /\ LET list_whole ==
                     ListTilesRegridded(bounds, cases, da_target, ext, scale,
                                        Olap)
                   list_tiles ==
                     [k \in 1..Len(list_whole) |->
                        IF k \in unfinished
                        THEN OpenUnfinished(list_whole[k])
                        ELSE list_whole[k]]
                   ds_combined ==
                     ReindexLike(CombineByCoords(list_tiles), da_target)
               IN IF \E k \in 1..Len(list_tiles) : DOMAIN list_tiles[k] = {}
                  THEN /\ err' = "ValueError"
                       /\ pc' = "error"
                       /\ UNCHANGED << exported, agg >>
                  ELSE
                    \* a file that is not written to the end is not a
                    \* readable NetCDF file (OSError) or is read without
                    \* its data
                    \/ /\ unfinished # {}
                       /\ err' = "OSError"
                       /\ pc' = "error"
                       /\ UNCHANGED << exported, agg >>
                    \/ /\ agg' = [ da_target |-> da_target,
                                   da_source |-> da_source,
                                   fill_value |-> fill_value,
                                   dtype |-> dtype,
                                   ds_combined |-> ds_combined,
                                   ds_final |-> Finalize(ds_combined,
                                                         fill_value, dtype) ]
                       /\ exported' = exported \cup ExportedFiles(type_export)
                       /\ pc' = "cleanup"
                       /\ UNCHANGED err
  /\ UNCHANGED << inputs, dir_target, dir_source, dir_bash, script, dir_out,
                  sh, jobs, cdo, partial, failed, now, obs >>

\* if del_interm == True: shutil.rmtree(dir_out + 'interm')
Cleanup ==
  /\ pc = "cleanup"
  /\ IF del_interm
     THEN /\ dir_target' = {}
          /\ dir_source' = {}
          /\ dir_bash' = NoFile
          /\ script' = << >>
          /\ dir_out' = NoFile
          /\ partial' = {}
     ELSE UNCHANGED << dir_target, dir_source, dir_bash, script, dir_out,
                       partial >>
  /\ pc' = "done"
  /\ UNCHANGED << inputs, sh, jobs, cdo, failed, now, obs, exported, agg, err >>

Next ==
  \/ MakeIntermediateDirectories
  \/ MakeTiles
  \/ MakeBashScripts
  \/ StartShell
  \/ Submit
  \/ \E f \in DOMAIN jobs : CdoStarts(f)
  \/ \E c \in cdo : FileAppears(c)
  \/ \E c \in cdo : FileWritten(c)
  \/ \E c \in cdo : CdoEnds(c)
  \/ \E c \in cdo : CdoFails(c)
  \/ \E f \in DOMAIN jobs : JobKilled(f)
  \/ Wait
  \/ ShellExits
  \/ ParityLoop
  \/ ParityExit
  \/ QuiesceLoop
  \/ QuiesceExit
  \/ ExportRegridded
  \/ Cleanup

Spec == Init /\ [][Next]_vars

\* ------------------------------------------------- runs that are scheduled

\* the runs in which every cdo line writes its output: the statements of
\* regrid_high_res, the lines of regridding.sh and the slurm jobs
MainStep ==
  \/ MakeIntermediateDirectories
  \/ MakeTiles
  \/ MakeBashScripts
  \/ ParityLoop
  \/ ParityExit
  \/ QuiesceLoop
  \/ QuiesceExit
  \/ ExportRegridded
  \/ Cleanup

ShellStep == StartShell \/ Submit \/ ShellExits

JobStarts == \E f \in DOMAIN jobs : CdoStarts(f)

JobWrites == \E c \in cdo : FileAppears(c) \/ CdoEnds(c)

JobWritesOn == \E c \in cdo : FileWritten(c)

\* the two polling loops of _run_bash_script
PollStep == ParityLoop \/ ParityExit \/ QuiesceLoop \/ QuiesceExit

InitFair ==
  /\ size_tiles \in RunSizes
  /\ ext \in RunExtents
  /\ \E r \in {q \in RunCases : q.type_export = "zarr" /\ q.del_interm} :
       /\ type_export = r.type_export
       /\ del_interm = r.del_interm
       /\ skew = r.clock[1]
       /\ tz_shift = r.clock[2]
       /\ dir_out = IF r.stale THEN StaleOut ELSE NoFile
  /\ InitRest

NextFair ==
  MainStep \/ ShellStep \/ JobStarts \/ JobWrites \/ JobWritesOn \/ Wait

\* once the jobs are dispatched: bash runs the lines of regridding.sh,
\* slurm runs every submitted sub script, every cdo line writes its file,
\* and Python runs its polling loops
SpecFair ==
  /\ InitFair
  /\ [][NextFair]_vars
  /\ WF_vars(PollStep)
  /\ WF_vars(ShellStep)
  /\ WF_vars(JobStarts)
  /\ WF_vars(JobWrites)

\* ================================================================== claims

\* the tiles of the global grid and the selected tiles of the run
GlobalTiles == make_cases_list_global(size_tiles)
SourceTiles == make_cases_list_source(ext, size_tiles)

\* the elements of a sequence
Elems(q) == {q[k] : k \in 1..Len(q)}

\* number of sub scripts in interm/bash/
NumBatches == Cardinality(DOMAIN dir_bash)

\* C1: in the dispatch script every batch script is submitted exactly once,
\* exactly one submission is not backgrounded, and that one is the script of
\* the batch with the highest index, which holds the last tile of the list.
C1_LastBatchBlocks ==
  pc = "run" =>
    /\ \A f \in DOMAIN dir_bash :
         Cardinality({k \in 1..Len(script) : script[k].file = f}) = 1
    /\ \A k \in 1..Len(script) : script[k].file \in DOMAIN dir_bash
    /\ Cardinality({k \in 1..Len(script) : ~script[k].background}) = 1
    /\ \A k \in 1..Len(script) :
         ~script[k].background =>
           /\ script[k].file = ScriptSubName(NumBatches - 1)
           /\ dir_bash[script[k].file][Len(dir_bash[script[k].file])]
                = prep_cmd_cdo(SourceTiles[Len(SourceTiles)])

\* C2: each evaluation of the quiescence condition leaves the loop exactly
\* when now minus the newest modification time is 120 s or more.
C2_DoneIffGapAtLeastThreshold ==
  obs.checked =>
    IF pc = "quiesce" THEN obs.gap < QuiesceThreshold
    ELSE obs.gap >= QuiesceThreshold

\* C3: while the file counts of interm/target/ and interm/out/ differ the
\* run stays in the count-parity loop, and the quiescence loop is entered
\* only from the count-parity loop in a state with equal counts.
C3_ParityBeforeQuiescence ==
  [][ /\ (pc = "parity"
          /\ Cardinality(dir_target) # Cardinality(DOMAIN dir_out))
         => pc' = "parity"
      /\ (pc # "quiesce" /\ pc' = "quiesce")
         => (pc = "parity"
             /\ Cardinality(dir_target) = Cardinality(DOMAIN dir_out)) ]_vars

\* C3 witness: the counts differ in the count-parity loop although the
\* newest output is older than the quiescence threshold.
C3_Witness ==
  /\ pc = "parity"
  /\ Cardinality(dir_target) # Cardinality(DOMAIN dir_out)
  /\ DOMAIN dir_out # {}
  /\ get_lastmod_diff(dir_out, now) >= QuiesceThreshold
  /\ now > 0

\* the closed-interval intersection of a tile and the source extent
ClosedIntersect(t) ==
  /\ t[2] >= ext.lat_min
  /\ t[1] <= ext.lat_max
  /\ t[4] >= ext.lon_min
  /\ t[3] <= ext.lon_max

\* C4: the selected tiles are exactly the global tiles that intersect the
\* source extent as closed intervals, in the order of the global list, and
\* these are the tiles whose slices _make_tiles writes.
C4_SelectionIsClosedIntersection ==
  LET g == GlobalTiles
      r == SourceTiles
      want == {k \in 1..Len(g) : ClosedIntersect(g[k])}
      Pos(t) == CHOOSE k \in 1..Len(g) : g[k] = t
  IN /\ \A k \in 1..Len(r) :
          (\E j \in 1..Len(g) : g[j] = r[k]) /\ ClosedIntersect(r[k])
     /\ \A k \in want : \E j \in 1..Len(r) : r[j] = g[k]
     /\ \A a \in 1..(Len(r) - 1) : Pos(r[a]) < Pos(r[a + 1])
     /\ pc \in {"scripts", "run", "error"} =>
          dir_target = {TargetName(g[k]) : k \in want}

\* C4 witness: the slices are written, some global tiles are left out and a
\* selected tile touches the extent only with its edge.
C4_Witness ==
  /\ pc = "scripts"
  /\ dir_target # {}
  /\ Len(SourceTiles) < Len(GlobalTiles)
  /\ \E k \in 1..Len(SourceTiles) : SourceTiles[k][2] = ext.lat_min
  /\ \E k \in 1..Len(SourceTiles) : SourceTiles[k][3] = ext.lon_max

\* the extent of the worked example
WorkedExtent ==
  [lat_min |-> 10, lat_max |-> 50, lon_min |-> -30, lon_max |-> 40]

WorkedCase == size_tiles = 30 /\ ext = WorkedExtent /\ pc = "scripts"

\* the tiles of side 30 with the given low corners
TilesAt(lats, lons) == {<< la, la + 30, lo, lo + 30 >> : la \in lats, lo \in lons}

\* C5 as stated: the worked example selects the 6 tiles with latMin in
\* {0,30} and lonMin in {-30,0,30}.
C5_WorkedExampleSixTiles ==
  WorkedCase =>
    /\ Len(SourceTiles) = 6
    /\ Elems(SourceTiles) = TilesAt({0, 30}, {-30, 0, 30})
    /\ dir_target = {TargetName(t) : t \in TilesAt({0, 30}, {-30, 0, 30})}

\* C5 amended: the worked example selects 8 tiles, those with latMin in
\* {0,30} and lonMin in {-60,-30,0,30}: the tile column [-60,-30] touches
\* the extent at lon = -30.
C5_WorkedExampleEightTiles ==
  WorkedCase =>
    /\ Len(SourceTiles) = 8
    /\ Elems(SourceTiles) = TilesAt({0, 30}, {-60, -30, 0, 30})
    /\ dir_target = {TargetName(t) : t \in TilesAt({0, 30}, {-60, -30, 0, 30})}

\* C5 witness: the slices of the worked example are written.
C5_Witness == WorkedCase /\ Cardinality(dir_target) = 8

WholeGlobe ==
  [lat_min |-> LatStart, lat_max |-> LatStop,
   lon_min |-> LonStart, lon_max |-> LonStop]

DividesDomain(s) ==
  (LatStop - LatStart) % s = 0 /\ (LonStop - LonStart) % s = 0

\* C6: for a size_tiles that divides 180 and 360 the global list holds
\* (180/size_tiles) * (360/size_tiles) tiles, and a source that spans the
\* globe gets that many target slices.
C6_GlobalTileCount ==
  DividesDomain(size_tiles) =>
    /\ Len(GlobalTiles) = ((LatStop - LatStart) \div size_tiles)
                          * ((LonStop - LonStart) \div size_tiles)
    /\ (ext = WholeGlobe /\ pc = "scripts") =>
         Cardinality(dir_target) = ((LatStop - LatStart) \div size_tiles)
                                   * ((LonStop - LonStart) \div size_tiles)

\* C6 witness: size_tiles = 30 and the 72 slices of a global source.
C6_Witness ==
  /\ size_tiles = 30
  /\ ext = WholeGlobe
  /\ pc = "scripts"
  /\ Cardinality(dir_target) = 72

\* C7: the export runs only after the dispatch script has exited, the
\* count-parity loop has seen equal counts and the quiescence loop has seen
\* a gap of at least the threshold; the stages leave their traces in order.
C7_ExportAfterHeuristic ==
  /\ pc \in {"export", "cleanup", "done"} =>
       /\ obs.ran
       /\ obs.parity
       /\ obs.checked
       /\ obs.gap >= QuiesceThreshold
  /\ pc \in {"mkdirs", "tiles"} => (dir_bash = NoFile /\ script = << >>)
  /\ pc \in {"mkdirs", "tiles", "scripts"} => (sh = 0 /\ jobs = NoFile)
  /\ pc \in {"mkdirs", "tiles", "scripts", "run"} => ~obs.ran
  /\ pc \in {"mkdirs", "tiles", "scripts", "run", "parity", "quiesce",
             "export"} => exported = {}

\* C8: once a tile's cdo line has ended without an output file, the run
\* is in the dispatch or the count-parity loop and stays there: it reaches
\* neither the quiescence loop nor the export and raises nothing.
C8_MissingOutputHangs ==
  failed # {} => (pc \in {"run", "parity"} /\ err = "none" /\ exported = {})

\* C8 witness: every job has ended, one tile failed, the others wrote their
\* outputs, and the run still polls the counts.
C8_Witness ==
  /\ pc = "parity"
  /\ Cardinality(failed) = 1
  /\ Cardinality(DOMAIN dir_out) = Cardinality(dir_target) - 1
  /\ Cardinality(DOMAIN dir_out) >= 5
  /\ \A f \in DOMAIN dir_bash : f \in DOMAIN jobs /\ jobs[f].state = "done"
  /\ now = MaxClock

\* the cdo line that make_bash_scripts wrote for the k-th selected tile
LineOfTile(k) ==
  dir_bash[ScriptSubName((k - 1) \div BatchSize)][((k - 1) % BatchSize) + 1]

\* C9: for every tile of the global grid (a source that spans the globe
\* selects them all) the path of the output file named in the tile's cdo
\* line parses back to the tile's four coordinates, the target and source
\* slices parse to the same four values, and the slices are the files that
\* _make_tiles wrote.
C9_FilenameRoundTrip ==
  (pc = "run" /\ ext = WholeGlobe) =>
    LET g == GlobalTiles
    IN \A k \in 1..Len(g) :
         LET t == g[k]
             cmd == LineOfTile(k)
         IN /\ BoundsParse(OutPath(Basename(cmd.f_out)))
            /\ TileBoundsOfFile(OutPath(Basename(cmd.f_out))) = t
            /\ BoundsParse(cmd.f_target)
            /\ TileBoundsOfFile(cmd.f_target) = t
            /\ BoundsParse(cmd.f_source)
            /\ TileBoundsOfFile(cmd.f_source) = t
            /\ Basename(cmd.f_target) \in dir_target
            /\ Basename(cmd.f_source) \in dir_source

\* C9 witness: a batch script names the output of a tile with negative and
\* positive coordinates.
C9_Witness ==
  /\ pc = "run"
  /\ ext = WholeGlobe
  /\ \E f \in DOMAIN dir_bash : \E k \in 1..Len(dir_bash[f]) :
       LET b == TileBoundsOfFile(OutPath(Basename(dir_bash[f][k].f_out)))
       IN b[1] < 0 /\ b[2] = 0 /\ b[3] < 0 /\ b[4] < 0

SupportedTypes == {"zarr", "tif", "netcdf"}

\* C10: an export with an unsupported type_export raises an error; it does
\* not return normally with nothing written.
C10_UnsupportedFormatFails ==
  type_export \notin SupportedTypes =>
    ~(pc \in {"cleanup", "done"} /\ err = "none" /\ exported = {})

\* ---------------------------------------------------------------------------
\* C13: the selected tiles are cut, in list order, into consecutive groups
\* of five; every group but the last holds exactly five tiles, the last one
\* holds one to five, every tile's command stands in exactly one sub script,
\* and reading the sub scripts in index order gives back the list.
C13_BatchesPartitionTiles ==
  pc = "run" =>
    LET r == SourceTiles
        n == Len(r)
        nb == NumBatches
        Slots == {<< f, k >> \in (DOMAIN dir_bash) \X (1..BatchSize) :
                    k <= Len(dir_bash[f])}
    IN /\ n >= 1
       /\ DOMAIN dir_bash = {ScriptSubName(g) : g \in 0..(nb - 1)}
       /\ \A g \in 0..(nb - 2) : Len(dir_bash[ScriptSubName(g)]) = BatchSize
       /\ Len(dir_bash[ScriptSubName(nb - 1)]) \in 1..BatchSize
       /\ Cardinality(Slots) = n
       /\ \A k \in 1..n :
            dir_bash[ScriptSubName((k - 1) \div BatchSize)]
                    [((k - 1) % BatchSize) + 1] = prep_cmd_cdo(r[k])
       /\ \A k \in 1..n :
            Cardinality({s \in Slots :
                           dir_bash[s[1]][s[2]] = prep_cmd_cdo(r[k])}) = 1

\* three or more sub scripts were written and the last one is not full
C13_Witness ==
  /\ pc = "run"
  /\ NumBatches >= 3
  /\ Len(dir_bash[ScriptSubName(NumBatches - 1)]) < BatchSize

\* ---------------------------------------------------------------------------
\* C14: the tile exporter and the batch script generator work on the same
\* list: there are as many slice pairs as cdo lines, and the files every cdo
\* line names are slices that were written.
CdoLines ==
  {dir_bash[f][k] : << f, k >> \in
     {s \in (DOMAIN dir_bash) \X (1..BatchSize) : s[2] <= Len(dir_bash[s[1]])}}

C14_ExporterAndBatcherAgree ==
  pc = "run" =>
    LET lines == CdoLines
    IN /\ Cardinality(dir_target) = Cardinality(lines)
       /\ Cardinality(dir_source) = Cardinality(lines)
       /\ \A l \in lines :
            /\ StartsWith(l.f_target, S_target_dir)
            /\ StartsWith(l.f_source, S_source_dir)
            /\ Basename(l.f_target) \in dir_target
            /\ Basename(l.f_source) \in dir_source
       /\ dir_target = {Basename(l.f_target) : l \in lines}
       /\ dir_source = {Basename(l.f_source) : l \in lines}

\* more than one sub script of slices and commands was produced
C14_Witness ==
  /\ pc = "run"
  /\ Cardinality(dir_target) > BatchSize
  /\ Cardinality(CdoLines) > BatchSize

\* ---------------------------------------------------------------------------
\* C15 (as stated): a tile size that does not divide the 180 x 360 domain
\* ends the run with an error (or a warning) instead of tiles that reach
\* past the domain.
C15_IrregularSizeFails ==
  (~DividesDomain(size_tiles) /\ pc \in {"scripts", "run"}) => err # "none"

\* ---------------------------------------------------------------------------
\* C16: every global tile has latMin < latMax and lonMin < lonMax, is
\* size_tiles wide both ways, and starts on a multiple of size_tiles counted
\* from (-90, -180); no two tiles share interior points; when size_tiles
\* divides 180 and 360 the tiles stay inside the domain and cover it.
InteriorsMeet(a, b) ==
  /\ (IF a[1] > b[1] THEN a[1] ELSE b[1]) < (IF a[2] < b[2] THEN a[2] ELSE b[2])
  /\ (IF a[3] > b[3] THEN a[3] ELSE b[3]) < (IF a[4] < b[4] THEN a[4] ELSE b[4])

C16_GlobalGridRegular ==
  (ext = WholeGlobe /\ pc \in {"scripts", "run"}) =>
    LET g == GlobalTiles
        n == Len(g)
    IN /\ \A k \in 1..n :
            /\ g[k][1] < g[k][2]
            /\ g[k][3] < g[k][4]
            /\ g[k][2] - g[k][1] = size_tiles
            /\ g[k][4] - g[k][3] = size_tiles
            /\ g[k][1] >= LatStart /\ g[k][1] < LatStop
            /\ g[k][3] >= LonStart /\ g[k][3] < LonStop
            /\ (g[k][1] - LatStart) % size_tiles = 0
            /\ (g[k][3] - LonStart) % size_tiles = 0
            /\ TargetName(g[k]) \in dir_target
       /\ \A a \in 1..n : \A b \in (a + 1)..n : ~InteriorsMeet(g[a], g[b])
       /\ DividesDomain(size_tiles) =>
            /\ \A k \in 1..n : g[k][2] <= LatStop /\ g[k][4] <= LonStop
            /\ \A la \in LatStart..LatStop : \A lo \in {LonStart, 0, LonStop} :
                 \E k \in 1..n : /\ g[k][1] <= la /\ la <= g[k][2]
                                 /\ g[k][3] <= lo /\ lo <= g[k][4]
            /\ \A lo \in LonStart..LonStop : \A la \in {LatStart, 0, LatStop} :
                 \E k \in 1..n : /\ g[k][1] <= la /\ la <= g[k][2]
                                 /\ g[k][3] <= lo /\ lo <= g[k][4]
            /\ Cardinality({<< g[k][1], g[k][3] >> : k \in 1..n})
                 = ((LatStop - LatStart) \div size_tiles)
                   * ((LonStop - LonStart) \div size_tiles)

\* the whole globe was tiled with a size that divides the domain, in more
\* than one row and more than two columns
C16_Witness ==
  /\ ext = WholeGlobe
  /\ pc = "run"
  /\ DividesDomain(size_tiles)
  /\ Len(GlobalTiles) >= 8
  /\ Cardinality(dir_target) = Len(GlobalTiles)

\* ---------------------------------------------------------------------------
\* C17: every source point inside the global domain lies in at least one
\* selected tile, whose slice is written; this includes points on a tile
\* edge and points at lat = 90 or lon = 180.
SourcePoints ==
  {p \in LatValues \X LonValues :
     /\ ext.lat_min <= p[1] /\ p[1] <= ext.lat_max
     /\ ext.lon_min <= p[2] /\ p[2] <= ext.lon_max
     /\ LatStart <= p[1] /\ p[1] <= LatStop
     /\ LonStart <= p[2] /\ p[2] <= LonStop}

TileHolds(t, p) ==
  /\ t[1] <= p[1] /\ p[1] <= t[2]
  /\ t[3] <= p[2] /\ p[2] <= t[4]

C17_SourcePointsCovered ==
  pc \in {"scripts", "run"} =>
    LET r == SourceTiles
    IN \A p \in SourcePoints :
         \E k \in 1..Len(r) : /\ TileHolds(r[k], p)
                              /\ TargetName(r[k]) \in dir_target
                              /\ SourceName(r[k]) \in dir_source

\* a source point at lat = 90 and lon = 180 is covered, and another source
\* point lies on an edge shared by two selected tiles
C17_Witness ==
  /\ pc = "run"
  /\ << LatStop, LonStop >> \in SourcePoints
  /\ \E p \in SourcePoints :
       Cardinality({k \in 1..Len(SourceTiles) : TileHolds(SourceTiles[k], p)}) >= 2

\* ---------------------------------------------------------------------------
\* C18: the sub scripts run side by side, the cdo lines of one sub script
\* strictly one after another: never do two commands of the same sub script
\* run at once; the command that runs is the last line its script started,
\* and every earlier line of that script has ended, leaving an output file
\* (written to the end or not) or none; the lines a running script has not
\* started have neither a file nor an end, and a script that is over runs
\* no command.
LineRuns(f, k) == \E c \in cdo : c.file = f /\ c.line = k

LineEnded(f, k) == k < jobs[f].pos /\ ~LineRuns(f, k)

C18_SequentialWithinBatch ==
  pc \in {"run", "parity", "quiesce", "export", "cleanup"} =>
    /\ \A c \in cdo : \A d \in cdo : c.file = d.file => c = d
    /\ \A c \in cdo : /\ c.file \in DOMAIN jobs
                      /\ jobs[c.file].state = "running"
                      /\ c.line = jobs[c.file].pos - 1
                      /\ c.out = Basename(dir_bash[c.file][c.line].f_out)
                      /\ c.out \notin failed
                      /\ c.out \in DOMAIN dir_out => c.out \in partial
                      /\ \A j \in 1..(c.line - 1) : LineEnded(c.file, j)
    /\ \A f \in DOMAIN jobs :
         /\ \A j \in 1..Len(dir_bash[f]) :
              LET name == Basename(dir_bash[f][j].f_out)
              IN /\ LineEnded(f, j) =>
                      (name \in failed \/ name \in DOMAIN dir_out)
                 /\ name \in DOMAIN dir_out => j < jobs[f].pos
                 /\ (j >= jobs[f].pos /\ jobs[f].state = "running")
                      => name \notin failed
         /\ jobs[f].state = "done" =>
              /\ \A c \in cdo : c.file # f
              /\ \A j \in 1..Len(dir_bash[f]) :
                   LET name == Basename(dir_bash[f][j].f_out)
                   IN name \in failed \/ name \in DOMAIN dir_out

\* commands of two sub scripts run at the same time, both with their file
\* begun and not ended, one of them after an earlier line of its script has
\* ended and left an unfinished file, while the shell still waits
C18_Witness ==
  /\ pc = "run"
  /\ \E c \in cdo : \E d \in cdo :
       /\ c.file # d.file
       /\ c.line > 1
       /\ LineEnded(c.file, 1)
       /\ Basename(dir_bash[c.file][1].f_out) \in partial
       /\ c.out \in partial
       /\ d.out \in partial

\* ---------------------------------------------------------------------------
\* C19: once the count-parity loop has been left (the quiescence loop, the
\* aggregation and the cleanup come after it), every selected tile has its
\* output file in interm/out/, also when an earlier run had left files
\* there: no cell is filled because a selected tile's output is absent.
OutNames ==
  {Basename(prep_cmd_cdo(SourceTiles[k]).f_out) : k \in 1..Len(SourceTiles)}

C19_CompletionHasAllOutputs ==
  pc \in {"quiesce", "export", "cleanup"} =>
    /\ OutNames \subseteq DOMAIN dir_out
    /\ DOMAIN dir_out \subseteq OutNames
    /\ failed = {}

\* aggregation starts with the outputs of two sub scripts in interm/out/
\* and nothing else
C19_Witness ==
  /\ pc = "export"
  /\ Cardinality(OutNames) > BatchSize
  /\ OutNames = DOMAIN dir_out
  /\ StaleName \notin DOMAIN dir_out

\* ---------------------------------------------------------------------------
\* C11: the coordinates of the aggregated dataset are exactly the
\* coordinates of the target grid: none is missing and none is added,
\* whether the source ends inside the target grid or was clipped to it.
C11_FinalCoordsAreTargetCoords ==
  pc \in {"cleanup", "done"} =>
    /\ ExtentOf(ClipToTarget(agg.da_source, agg.da_target)) = ext
    /\ DOMAIN agg.ds_combined = Points(agg.da_target)
    /\ DOMAIN agg.ds_final = Points(agg.da_target)

\* aggregation has run on a target grid that holds cells no tile reaches,
\* next to cells the tiles delivered
C11_Witness ==
  /\ pc = "cleanup"
  /\ \E p \in Points(agg.da_target) :
       \A k \in 1..Len(SourceTiles) : ~TileHolds(SourceTiles[k], p)
  /\ \E p \in DOMAIN agg.ds_combined : ~agg.ds_combined[p].nan

\* ---------------------------------------------------------------------------
\* C12 (as stated): filling and casting a second time changes nothing, and
\* every cell of the result holds the value its tile delivered or exactly
\* fill_value.
C12_CellsAreTileValueOrFill ==
  pc \in {"cleanup", "done"} =>
    /\ Finalize(agg.ds_final, agg.fill_value, agg.dtype) = agg.ds_final
    /\ \A p \in DOMAIN agg.ds_final :
         agg.ds_final[p] = IF agg.ds_combined[p].nan
                           THEN Val(agg.fill_value)
                           ELSE agg.ds_combined[p]

\* a second pass of fill and cast over the result is the identity
FinalizeIdempotent ==
  pc \in {"cleanup", "done"} =>
    Finalize(agg.ds_final, agg.fill_value, agg.dtype) = agg.ds_final

\* ---------------------------------------------------------------------------
\* C20: when every submitted sub script is run and every cdo line writes its
\* output, a run that has dispatched its jobs always comes to leave both
\* polling loops and to start the aggregation, also when the background sub
\* scripts end after the shell has returned.
C20_AggregationEventuallyStarts ==
  (pc = "run") ~> (pc = "export")

\* the aggregation starts in a run whose shell returned while a background
\* sub script had not ended, after both polling loops were passed
C20_Witness ==
  /\ pc = "export"
  /\ obs.late
  /\ obs.parity
  /\ obs.checked

====
